---- MODULE Spec2Model ----
(***************************************************************************)
(* Model of the project-generation server (src/unnamed/part_001, the same  *)
(* code as the second half of src/openai-node/index.js): POST /generate,   *)
(* GET /download/:filename, saveGeneratedFiles, createZipFile,             *)
(* validateGeneratedFiles, and the cleanup timers of the download handler. *)
(*                                                                         *)
(* Text.  A JavaScript string is a sequence of tokens; a token is a TLA+   *)
(* string standing for a run of characters that the code never looks       *)
(* inside ("p", "_", ".zip", "package.json", a whole JSON document, a      *)
(* whole source line).  "/" is always a token of its own, so splitting a   *)
(* path is done on tokens.  What a character-level test (endsWith,         *)
(* includes, a regular expression, JSON.parse) answers on a token is given *)
(* by a table next to the operator that models the test.                   *)
(*                                                                         *)
(* Time.  now is the clock in milliseconds; Date.now() and the timer       *)
(* queue read the same clock.  A timer runs at its deadline: the clock     *)
(* does not pass a pending deadline while the server process is alive.     *)
(***************************************************************************)
EXTENDS Integers, Sequences, FiniteSets, TLC

\* ------------------------------------------------------------------ bounds
MaxReq == 2          \* /generate requests in one behaviour, at most
MaxLive == 1         \* ... of them in the lifecycle specification
MaxDecode == 1       \* ... of them in the decoding specification
MaxDl == 2           \* /download requests answered with a file
MaxDelays == 2       \* the clock runs for this many cleanup delays ...
MaxMs == 1           \* ... and this many single milliseconds
MaxRetries == 5      \* the largest retries argument of the client's fetch

\* ------------------------------------------------------- program constants
CleanupDelay == 300000

Reqs == 1..MaxReq

\* ---------------------------------------------------------------- text
Last(s) == s[Len(s)]

\* String.prototype.endsWith on the tokens of this model: the tokens whose
\* characters end with the given suffix.
TokensEndingWith(suffix) ==
    CASE suffix = ".zip" -> {".zip"}
      [] suffix = "package.json" -> {"package.json"}
      [] suffix = "vite.config.js" -> {"vite.config.js"}
      [] OTHER -> {suffix}

endsWith(s, suffix) == s # <<>> /\ Last(s) \in TokensEndingWith(suffix)

\* String.prototype.startsWith for a one-character prefix.
TokensStartingWith(prefix) ==
    CASE prefix = "." -> {".", "..", ".zip"}
      [] prefix = "/" -> {"/"}
      [] prefix = "@" -> {"@", "@vitejs"}
      [] OTHER -> {prefix}

startsWith(s, prefix) == s # <<>> /\ Head(s) \in TokensStartingWith(prefix)

Whitespace == {" ", "\n"}

\* String.prototype.trim
RECURSIVE TrimLeft(_)
TrimLeft(s) ==
    IF s # <<>> /\ Head(s) \in Whitespace THEN TrimLeft(Tail(s)) ELSE s

RECURSIVE TrimRight(_)
TrimRight(s) ==
    IF s # <<>> /\ Last(s) \in Whitespace
    THEN TrimRight(SubSeq(s, 1, Len(s) - 1)) ELSE s

trim(s) == TrimRight(TrimLeft(s))

\* String.prototype.toLowerCase
LowerTok(t) ==
    CASE t = "AEM" -> "aem"
      [] t = "Drupal" -> "drupal"
      [] OTHER -> t

toLowerCase(s) == [i \in 1..Len(s) |-> LowerTok(s[i])]

\* ---------------------------------------------------------------- paths
\* String.prototype.split("/")
RECURSIVE SplitSlash(_, _)
SplitSlash(s, cur) ==
    IF s = <<>> THEN <<cur>>
    ELSE IF Head(s) = "/" THEN <<cur>> \o SplitSlash(Tail(s), <<>>)
    ELSE SplitSlash(Tail(s), Append(cur, Head(s)))

split(s) == SplitSlash(s, <<>>)

\* path.normalize on a list of segments: "" and "." are dropped, ".." pops
\* the segment before it, or is kept when there is none to pop.
RECURSIVE NormSegs(_, _)
NormSegs(segs, acc) ==
    IF segs = <<>> THEN acc
    ELSE LET g == Head(segs) IN
         IF g = <<>> \/ g = <<".">> THEN NormSegs(Tail(segs), acc)
         ELSE IF g = <<"..">>
              THEN IF acc # <<>> /\ Last(acc) # <<"..">>
                   THEN NormSegs(Tail(segs), SubSeq(acc, 1, Len(acc) - 1))
                   ELSE NormSegs(Tail(segs), Append(acc, g))
         ELSE NormSegs(Tail(segs), Append(acc, g))

\* path.join(a, b): a path is the list of its segments
pathJoin(a, b) == NormSegs(a \o split(b), <<>>)

\* path.dirname, path.basename
dirname(p) == SubSeq(p, 1, Len(p) - 1)
basename(p) == IF p = <<>> THEN <<>> ELSE Last(p)

Root == << <<"generated_projects">> >>

\* every directory on the way to p, p included (mkdirSync recursive)
Ancestors(p) == {SubSeq(p, 1, n) : n \in 1..Len(p)}

\* ------------------------------------------------------------ JSON values
\* A JavaScript value as JSON.parse builds it.  t is the type, s the text of
\* a string (or the literal of a number), kv the members of an object in
\* insertion order, each <<key, value>>.
JUndef == [t |-> "undefined", s |-> <<>>, kv |-> <<>>]
JNull == [t |-> "null", s |-> <<>>, kv |-> <<>>]
JStr(s) == [t |-> "string", s |-> s, kv |-> <<>>]
JNum(s) == [t |-> "number", s |-> s, kv |-> <<>>]
JObj(kv) == [t |-> "object", s |-> <<>>, kv |-> kv]

\* Object.keys(v): the keys of an object in insertion order, the indices of
\* a string, nothing for a number.
Keys(v) ==
    CASE v.t = "object" -> [i \in 1..Len(v.kv) |-> v.kv[i][1]]
      [] v.t = "string" -> [i \in 1..Len(v.s) |-> <<ToString(i - 1)>>]
      [] OTHER -> <<>>

\* The members every object inherits from Object.prototype (functions).
ObjectPrototype ==
    { <<"constructor">>, <<"toString">>, <<"valueOf">>, <<"hasOwnProperty">> }

JFun == [t |-> "function", s |-> <<>>, kv |-> <<>>]

\* v[k]: the own member, else the inherited one, else undefined; for a
\* string the character at an index.
Get(v, k) ==
    CASE v.t = "object" ->
            IF \E i \in 1..Len(v.kv) : v.kv[i][1] = k
            THEN v.kv[CHOOSE i \in 1..Len(v.kv) : v.kv[i][1] = k][2]
            ELSE IF k \in ObjectPrototype THEN JFun ELSE JUndef
      [] v.t = "string" ->
            IF \E i \in 1..Len(v.s) : <<ToString(i - 1)>> = k
            THEN JStr(<<v.s[CHOOSE i \in 1..Len(v.s) : <<ToString(i - 1)>> = k]>>)
            ELSE JUndef
      [] OTHER -> JUndef

\* reading a property of null or undefined throws a TypeError
Throws(v) == v.t \in {"null", "undefined"}

\* ToBoolean
Truthy(v) ==
    CASE v.t = "undefined" -> FALSE
      [] v.t = "null" -> FALSE
      [] v.t = "string" -> v.s # <<>>
      [] v.t = "number" -> v.s # <<"0">>
      [] OTHER -> TRUE

\* ToString, as a template literal `${v}` or a string method applies it
ToStr(v) ==
    CASE v.t = "string" -> v.s
      [] v.t = "number" -> v.s
      [] v.t = "undefined" -> <<"undefined">>
      [] v.t = "null" -> <<"null">>
      [] OTHER -> <<"[object Object]">>

\* ------------------------------------------------- the texts of this model
PkgOk ==
    JObj(<< << <<"name">>, JStr(<<"app">>) >>,
            << <<"version">>, JStr(<<"1.0.0">>) >>,
            << <<"dependencies">>, JObj(<< << <<"react">>, JStr(<<"^18.2.0">>) >> >>) >>,
            << <<"devDependencies">>, JObj(<< << <<"vite">>, JStr(<<"^5.0.0">>) >> >>) >> >>)

Files(kv) == JObj(<< << <<"files">>, kv >> >>)

\* Manifests for the validator: name and version, and the two dependency
\* sections with the given packages.
Dep(name) == << name, JStr(<<"^1.0.0">>) >>

Manifest(deps, devDeps) ==
    JObj(<< << <<"name">>, JStr(<<"app">>) >>,
            << <<"version">>, JStr(<<"1.0.0">>) >>,
            << <<"dependencies">>, JObj(deps) >>,
            << <<"devDependencies">>, JObj(devDeps) >> >>)

PluginReact == <<"@vitejs", "/", "plugin-react">>
PluginVue == <<"@vitejs", "/", "plugin-vue">>

\* FileMaps for the validator, the materializer and the archive builder:
\* a choice of manifest, of one source file, of a vite.config.js, of an
\* index.html, and of one more file whose key leaves the namespace.
ManifestEntries(m) ==
    CASE m = 1 -> << << <<"package.json">>, JStr(<<"PKG_OK">>) >> >>
      [] m = 2 -> << << <<"package.json">>, JStr(<<"PKG_EMPTY">>) >> >>
      [] m = 3 -> << << <<"package.json">>, JStr(<<"PKG_NULL">>) >> >>
      [] m = 4 -> << << <<"package.json">>, JStr(<<"PKG_FULL">>) >> >>
      [] m = 5 -> << << <<"package.json">>, JStr(<<"PKG_DEVONLY">>) >> >>
      [] m = 6 -> << << <<"package.json">>, JStr(<<"PKG_DEPSONLY">>) >> >>
      [] m = 7 -> << << <<"package.json">>, JStr(<<"PKG_FULL">>) >>,
                     << <<"sub", "/", "package.json">>, JStr(<<"PKG_EMPTY">>) >> >>
      [] OTHER -> <<>>

SourceLines ==
    << "import React from 'react'",
       "import x from \"left-pad\"",
       "const x = require(\"left-pad\")",
       "import App from './App.jsx'",
       "import { useState } from 'react'",
       "import c from \"constructor\"",
       "import a from '/abs/a.js'",
       "import x from \"react\"" >>

SourceEntries(n) ==
    IF n = 0 THEN <<>>
    ELSE << << <<"src", "/", "main.jsx">>, JStr(<<SourceLines[n]>>) >> >>

ViteEntries(v) ==
    CASE v = 1 -> << << <<"vite.config.js">>,
                        JStr(<<"import react from '@vitejs/plugin-react'">>) >> >>
      [] v = 2 -> << << <<"vite.config.js">>,
                        JStr(<<"import vue from '@vitejs/plugin-vue'">>) >> >>
      [] OTHER -> <<>>

HtmlEntries(h) ==
    IF h = 1 THEN << << <<"index.html">>, JStr(<<"<html>">>) >> >> ELSE <<>>

ExtraEntries(x) ==
    CASE x = 1 -> << << <<"..", "/", "..", "/", "x.js">>, JStr(<<"// x">>) >> >>
      [] x = 2 -> << << <<"/", "abs.js">>, JStr(<<"// abs">>) >> >>
      [] x = 3 -> << << <<"lib", "/", "src", "/", "main.js">>, JStr(<<"// lib">>) >> >>
      [] OTHER -> <<>>

FileMapChoices == (0..7) \X (0..Len(SourceLines)) \X (0..2) \X (0..1) \X (0..3)

FileMapOf(c) ==
    JObj(ManifestEntries(c[1]) \o SourceEntries(c[2]) \o ViteEntries(c[3])
         \o HtmlEntries(c[4]) \o ExtraEntries(c[5]))

\* the text of the document {"files": FileMapOf(c)}
FileMapToken(c) ==
    "FM_" \o ToString(c[1]) \o "_" \o ToString(c[2]) \o "_" \o ToString(c[3])
          \o "_" \o ToString(c[4]) \o "_" \o ToString(c[5])

FileMapDocs ==
    [t \in {FileMapToken(c) : c \in FileMapChoices} |->
        Files(FileMapOf(CHOOSE c \in FileMapChoices : FileMapToken(c) = t))]

\* JSON documents: the token is the document's text, the value what
\* JSON.parse returns for it.
Docs ==
    [ PKG_OK |-> PkgOk,
      PKG_EMPTY |-> JObj(<<>>),
      D_OK |-> Files(JObj(<< << <<"package.json">>, JStr(<<"PKG_OK">>) >>,
                             << <<"index.html">>, JStr(<<"<html>">>) >> >>)),
      D_ESC |-> Files(JObj(<< << <<"package.json">>, JStr(<<"PKG_OK">>) >>,
                              << <<"e", ".zip">>, JStr(<<"PK">>) >> >>)),
      D_NOPKG |-> Files(JObj(<< << <<"index.html">>, JStr(<<"<html>">>) >> >>)),
      D_BADPKG |-> Files(JObj(<< << <<"package.json">>, JStr(<<"PKG_EMPTY">>) >> >>)),
      D_EMPTY |-> Files(JObj(<<>>)),
      D_NOFILES |-> JObj(<< << <<"message">>, JStr(<<"done">>) >> >>),
      D_FILESSTR |-> Files(JStr(<<"a", "b">>)),
      D_NONSTR |-> Files(JObj(<< << <<"package.json">>, JStr(<<"PKG_OK">>) >>,
                                 << <<"n">>, JNum(<<"5">>) >> >>)),
      D_NULL |-> JNull,
      PKG_NULL |-> JNull,
      PKG_FULL |-> Manifest(<<Dep(<<"react">>), Dep(<<"react-dom">>)>>,
                            <<Dep(<<"vite">>), Dep(PluginReact), Dep(PluginVue)>>),
      PKG_DEVONLY |-> Manifest(<<>>,
                               <<Dep(<<"react">>), Dep(<<"react-dom">>), Dep(<<"vite">>),
                                 Dep(PluginReact), Dep(PluginVue)>>),
      PKG_DEPSONLY |-> Manifest(<<Dep(<<"react">>), Dep(<<"react-dom">>),
                                  Dep(PluginReact), Dep(PluginVue)>>,
                                <<Dep(<<"vite">>)>>) ]
    @@ FileMapDocs

\* JSON.parse(text): whitespace is allowed before and after the one
\* document; anything else in the text is a SyntaxError.
CanParse_Tolerant(text) ==
    Len(SelectSeq(text, LAMBDA t : t \in DOMAIN Docs)) = 1

CanParse(text) ==
    /\ Len(SelectSeq(text, LAMBDA t : t \notin Whitespace)) = 1
    /\ SelectSeq(text, LAMBDA t : t \notin Whitespace)[1] \in DOMAIN Docs

\* the value of the document of a text that parses
JSONparse(text) == Docs[SelectSeq(text, LAMBDA t : t \in DOMAIN Docs)[1]]

\* --------------------------------------------------- validateGeneratedFiles
\* What the import regular expression of the validator captures in one
\* token of source text: the module names, in order.  It needs the word
\* "from" before the quoted name, so a bare require("x") and a
\* side-effect import 'x' capture nothing.
ImportCaptures(tok) ==
    CASE tok = "import React from 'react'" -> << <<"react">> >>
      [] tok = "import x from \"left-pad\"" -> << <<"left-pad">> >>
      [] tok = "import App from './App.jsx'" -> << <<".", "/", "App.jsx">> >>
      [] tok = "import react from '@vitejs/plugin-react'" ->
              << <<"@vitejs", "/", "plugin-react">> >>
      [] tok = "import vue from '@vitejs/plugin-vue'" ->
              << <<"@vitejs", "/", "plugin-vue">> >>
      [] tok = "import x from \"react\"" -> << <<"react">> >>
      [] tok = "import { useState } from 'react'" -> << <<"react">> >>
      [] tok = "import c from \"constructor\"" -> << <<"constructor">> >>
      [] tok = "import a from '/abs/a.js'" -> << <<"/", "abs", "/", "a.js">> >>
      [] tok = "const x = require(\"left-pad\")" -> <<>>
      [] OTHER -> <<>>

\* String.prototype.includes: the needles of the validator found in a token
NeedlesIn(tok) ==
    CASE tok = "import React from 'react'" -> {"import React"}
      [] tok = "import x from \"react\"" -> {"from \"react\""}
      [] tok = "import react from '@vitejs/plugin-react'" -> {"@vitejs/plugin-react"}
      [] tok = "import vue from '@vitejs/plugin-vue'" -> {"@vitejs/plugin-vue"}
      [] OTHER -> {}

includes(text, needle) == \E i \in 1..Len(text) : needle \in NeedlesIn(text[i])

\* f.includes('src/main.js') || f.includes('src/main.jsx') on a file name
IsMainJs(f) ==
    \E i \in 1..Len(f) :
        /\ i + 2 <= Len(f)
        /\ f[i] = "src" /\ f[i + 1] = "/" /\ f[i + 2] \in {"main.js", "main.jsx"}

\* importRegex.exec over the whole content (a value that is not a string is
\* converted to one)
RECURSIVE CapturesOf(_)
CapturesOf(text) ==
    IF text = <<>> THEN <<>>
    ELSE ImportCaptures(Head(text)) \o CapturesOf(Tail(text))

RECURSIVE JoinWith(_, _)
JoinWith(parts, sep) ==
    IF parts = <<>> THEN <<>>
    ELSE IF Len(parts) = 1 THEN parts[1]
    ELSE parts[1] \o sep \o JoinWith(Tail(parts), sep)

\* lines 120-122: the package a module name belongs to
PackageName(moduleName) ==
    IF startsWith(moduleName, "@")
    THEN JoinWith(SubSeq(split(moduleName), 1,
                         IF Len(split(moduleName)) < 2 THEN Len(split(moduleName)) ELSE 2),
                  <<"/">>)
    ELSE split(moduleName)[1]

\* { ...a, ...b }: own members of the two objects, b's winning
Spread(a, b) ==
    LET ka == IF a.t = "object" THEN a.kv ELSE <<>>
        kb == IF b.t = "object" THEN b.kv ELSE <<>>
        keep == SelectSeq(ka, LAMBDA m : \A j \in 1..Len(kb) : kb[j][1] # m[1])
    IN  JObj(keep \o kb)

\* JSON.parse of a FileMap entry: the entry is converted to a string first
ManifestParses(v) ==
    CASE v.t = "string" -> CanParse(v.s)
      [] v.t \in {"number", "null"} -> TRUE
      [] OTHER -> FALSE

ManifestOf(v) == IF v.t = "string" THEN JSONparse(v.s) ELSE v

\* Array.prototype.find / some over the file names
FirstEndingWith(fileNames, suffix) ==
    fileNames[CHOOSE i \in 1..Len(fileNames) :
                 /\ endsWith(fileNames[i], suffix)
                 /\ \A j \in 1..(i - 1) : ~endsWith(fileNames[j], suffix)]

SomeEndsWith(fileNames, suffix) ==
    \E i \in 1..Len(fileNames) : endsWith(fileNames[i], suffix)

IsRelative_DotOnly(moduleName) == startsWith(moduleName, ".")

\* line 117: the module names the scan skips
IsRelative(moduleName) == startsWith(moduleName, ".") \/ startsWith(moduleName, "/")

\* lines 109-128: the missing entries, in the order the Set keeps them
RECURSIVE AddMissing(_, _, _)
AddMissing(caps, allDeps, acc) ==
    IF caps = <<>> THEN acc
    ELSE LET m == Head(caps)
             entry == <<"\"">> \o PackageName(m) \o <<"\": \"^1.0.0\"">>
         IN  IF IsRelative(m)
             THEN AddMissing(Tail(caps), allDeps, acc)
             ELSE IF Truthy(Get(allDeps, PackageName(m)))
                     \/ \E i \in 1..Len(acc) : acc[i] = entry
                  THEN AddMissing(Tail(caps), allDeps, acc)
                  ELSE AddMissing(Tail(caps), allDeps, Append(acc, entry))

RECURSIVE MissingDeps(_, _, _, _)
MissingDeps(fileNames, filesObj, allDeps, acc) ==
    IF fileNames = <<>> THEN acc
    ELSE MissingDeps(Tail(fileNames), filesObj, allDeps,
                     AddMissing(CapturesOf(ToStr(Get(filesObj, Head(fileNames)))),
                                allDeps, acc))

\* lines 98-101
FieldErrors(packageJson) ==
    (IF Truthy(Get(packageJson, <<"name">>)) THEN <<>>
     ELSE << <<"package.json missing 'name' field">> >>)
    \o (IF Truthy(Get(packageJson, <<"version">>)) THEN <<>>
        ELSE << <<"package.json missing 'version' field">> >>)
    \o (IF Truthy(Get(packageJson, <<"dependencies">>)) THEN <<>>
        ELSE << <<"package.json missing 'dependencies' object">> >>)
    \o (IF Truthy(Get(packageJson, <<"devDependencies">>)) THEN <<>>
        ELSE << <<"package.json missing 'devDependencies' object">> >>)

\* lines 130-132
MissingError(missing) ==
    IF missing = <<>> THEN <<>>
    ELSE << <<"Missing dependencies in package.json: ">> \o JoinWith(missing, <<", ">>) >>

\* lines 135-157; the content of vite.config.js must be a string, or
\* viteContent.includes throws
ViteThrows(fileNames, filesObj) ==
    /\ SomeEndsWith(fileNames, "vite.config.js")
    /\ Get(filesObj, FirstEndingWith(fileNames, "vite.config.js")).t # "string"

ViteErrors(fileNames, filesObj, allDeps) ==
    IF ~SomeEndsWith(fileNames, "vite.config.js") THEN <<>>
    ELSE LET viteContent == Get(filesObj, FirstEndingWith(fileNames, "vite.config.js")).s
         IN  (IF includes(viteContent, "@vitejs/plugin-react")
                 /\ ~Truthy(Get(allDeps, <<"@vitejs", "/", "plugin-react">>))
              THEN << <<"vite.config.js uses '@vitejs/plugin-react' -> add to devDependencies: \"@vitejs/plugin-react\": \"^4.0.0\"">> >>
              ELSE <<>>)
             \o (IF includes(viteContent, "@vitejs/plugin-vue")
                    /\ ~Truthy(Get(allDeps, <<"@vitejs", "/", "plugin-vue">>))
                 THEN << <<"vite.config.js uses '@vitejs/plugin-vue' -> add to devDependencies: \"@vitejs/plugin-vue\": \"^4.0.0\"">> >>
                 ELSE <<>>)
             \o (IF \E i \in 1..Len(fileNames) : fileNames[i] = <<"index.html">>
                 THEN <<>>
                 ELSE << <<"index.html is missing - REQUIRED for Vite projects (must be in root directory)">> >>)
             \o (IF \E i \in 1..Len(fileNames) : IsMainJs(fileNames[i])
                 THEN <<>>
                 ELSE << <<"src/main.js or src/main.jsx is missing - REQUIRED for Vite entry point">> >>)

\* line 160: fileNames.some(...) stops at the first file that uses React
\* and throws at the first content before it that has no includes method
IsReactFile(v) ==
    v.t = "string" /\ (includes(v.s, "import React") \/ includes(v.s, "from \"react\""))

ReactThrows(fileNames, filesObj) ==
    \E i \in 1..Len(fileNames) :
        /\ Get(filesObj, fileNames[i]).t # "string"
        /\ \A j \in 1..(i - 1) : ~IsReactFile(Get(filesObj, fileNames[j]))

hasReact(fileNames, filesObj) ==
    \E i \in 1..Len(fileNames) : IsReactFile(Get(filesObj, fileNames[i]))

ReactErrors_DomFirst(fileNames, filesObj, allDeps) ==
    IF ~hasReact(fileNames, filesObj) THEN <<>>
    ELSE (IF Truthy(Get(allDeps, <<"react-dom">>)) THEN <<>>
          ELSE << <<"React code found but 'react-dom' not in dependencies -> add: \"react-dom\": \"^18.2.0\"">> >>)
         \o (IF Truthy(Get(allDeps, <<"react">>)) THEN <<>>
             ELSE << <<"React code found but 'react' not in dependencies -> add: \"react\": \"^18.2.0\"">> >>)

\* lines 161-167
ReactErrors(fileNames, filesObj, allDeps) ==
    IF ~hasReact(fileNames, filesObj) THEN <<>>
    ELSE (IF Truthy(Get(allDeps, <<"react">>)) THEN <<>>
          ELSE << <<"React code found but 'react' not in dependencies -> add: \"react\": \"^18.2.0\"">> >>)
         \o (IF Truthy(Get(allDeps, <<"react-dom">>)) THEN <<>>
             ELSE << <<"React code found but 'react-dom' not in dependencies -> add: \"react-dom\": \"^18.2.0\"">> >>)

InvalidFormat == << <<"Invalid package.json format: ", "err.message">> >>

MissingManifest_Verbose ==
    << <<"package.json is missing - REQUIRED for all projects">>,
       <<"index.html is missing - REQUIRED for Vite projects (must be in root directory)">> >>

MissingManifest == << <<"package.json is missing - REQUIRED for all projects">> >>

\* lines 82-174: the report
validateGeneratedFiles(filesObj) ==
    LET fileNames == Keys(filesObj) IN
    IF ~SomeEndsWith(fileNames, "package.json") THEN MissingManifest
    ELSE LET entry == Get(filesObj, FirstEndingWith(fileNames, "package.json")) IN
         IF ~ManifestParses(entry) THEN InvalidFormat
         ELSE LET packageJson == ManifestOf(entry) IN
              IF Throws(packageJson) THEN InvalidFormat
              ELSE LET allDeps == Spread(Get(packageJson, <<"dependencies">>),
                                         Get(packageJson, <<"devDependencies">>))
                       e1 == FieldErrors(packageJson)
                             \o MissingError(MissingDeps(fileNames, filesObj, allDeps, <<>>))
                   IN  IF ViteThrows(fileNames, filesObj) THEN e1 \o InvalidFormat
                       ELSE LET e2 == e1 \o ViteErrors(fileNames, filesObj, allDeps) IN
                            IF ReactThrows(fileNames, filesObj) THEN e2 \o InvalidFormat
                            ELSE e2 \o ReactErrors(fileNames, filesObj, allDeps)

\* ------------------------------------------------------------------ state
VARIABLES
    now,      \* the clock, in milliseconds
    alive,    \* the server process is running
    pc,       \* where each /generate request is
    body,     \* req.body of each request
    aiText,   \* the trimmed model text of each request
    folder,   \* folderName of each request, <<>> until it is computed
    resp,     \* the responses sent to each /generate request, in order
    files,    \* the regular files on disk: path -> file
    dirs,     \* the directories on disk
    timers,   \* the pending cleanup timers, in the order they will run
    dl,       \* the /download requests answered with a file, in order
    hist,     \* per request: what its handler did (for the properties)
    sched,    \* every timer ever scheduled (for the properties)
    rm,       \* every unlink ever done (for the properties)
    cl        \* the client's call of exponentialBackoffFetch

vars == <<now, alive, pc, body, aiText, folder, resp, files, dirs, timers,
          dl, hist, sched, rm, cl>>

\* ------------------------------------- the client: exponentialBackoffFetch
\* src/openai-react/src/App.jsx, lines 11-32.  One call: its position, the
\* retries it runs with, the loop index i, the fetch attempts made, the
\* delays it has slept (in milliseconds), the status of the response it
\* returned, and whether lastError is set.
NoCall ==
    [pc |-> "idle", given |-> FALSE, retries |-> 0, i |-> 0, attempts |-> 0,
     waits |-> <<>>, status |-> 0, lastError |-> FALSE]

\* the retries argument: omitted, or a number
RetriesArgs ==
    {[given |-> FALSE, n |-> 0]} \cup {[given |-> TRUE, n |-> k] : k \in 0..MaxRetries}

\* line 11: retries = 5 when the argument is omitted
DefaultRetries == 5

\* the statuses a response may carry
Statuses == {200, 400, 404, 500}

RECURSIVE Pow2(_)
Pow2(n) == IF n = 0 THEN 1 ELSE 2 * Pow2(n - 1)

Delay_Linear(i) == (i + 1) * 1000

\* line 23
Delay(i) == Pow2(i) * 1000

\* lines 11-15: the call runs up to the first await of fetch, or, when the
\* loop has nothing to run, to the throw of line 31
Call(arg) ==
    /\ cl.pc = "idle"
    /\ LET retries == IF arg.given THEN arg.n ELSE DefaultRetries IN
       cl' = [cl EXCEPT !.given = arg.given, !.retries = retries,
                        !.pc = IF 0 < retries THEN "fetching" ELSE "thrown",
                        !.attempts = IF 0 < retries THEN 1 ELSE 0]
    /\ UNCHANGED <<now, alive, pc, body, aiText, folder, resp, files, dirs,
                   timers, dl, hist, sched, rm>>

\* lines 15-20: fetch resolves; the response is returned whatever its status
FetchResolves(status) ==
    /\ cl.pc = "fetching"
    /\ cl' = [cl EXCEPT !.pc = "returned", !.status = status]
    /\ UNCHANGED <<now, alive, pc, body, aiText, folder, resp, files, dirs,
                   timers, dl, hist, sched, rm>>

\* lines 21-28, 13 and 31: fetch throws; the call sleeps unless this was
\* the last attempt, after which the loop ends and the call throws
FetchRejects ==
    /\ cl.pc = "fetching"
    /\ cl' = IF cl.i < cl.retries - 1
             THEN [cl EXCEPT !.pc = "sleeping", !.lastError = TRUE,
                             !.waits = Append(@, Delay(cl.i))]
             ELSE [cl EXCEPT !.pc = "thrown", !.lastError = TRUE, !.i = @ + 1]
    /\ UNCHANGED <<now, alive, pc, body, aiText, folder, resp, files, dirs,
                   timers, dl, hist, sched, rm>>

\* lines 26, 13-15: the sleep is over; the loop goes on to the next fetch
Wake ==
    /\ cl.pc = "sleeping"
    /\ cl' = [cl EXCEPT !.i = @ + 1,
                        !.pc = IF cl.i + 1 < cl.retries THEN "fetching" ELSE "thrown",
                        !.attempts = IF cl.i + 1 < cl.retries THEN @ + 1 ELSE @]
    /\ UNCHANGED <<now, alive, pc, body, aiText, folder, resp, files, dirs,
                   timers, dl, hist, sched, rm>>

\* ---------------------------------------------------------- the file system
\* A file: what it is (a zip written by createZipFile, or a file written by
\* saveGeneratedFiles), its text or its archive entries, the requests that
\* hold it open for writing, and the request that wrote it last.
TextFile(content, r) ==
    [kind |-> "file", data |-> content, entries |-> <<>>, w |-> {}, by |-> r]
ZipFile(entries, writers, r) ==
    [kind |-> "zip", data |-> <<>>, entries |-> entries, w |-> writers, by |-> r]
NoFile == [kind |-> "none", data |-> <<>>, entries |-> <<>>, w |-> {}, by |-> 0]

\* fs.existsSync; the working directory itself is the empty path
existsSync(p, fs, ds) == p \in DOMAIN fs \/ p \in ds \/ p = <<>>

Put(fs, p, f) == [q \in (DOMAIN fs) \cup {p} |-> IF q = p THEN f ELSE fs[q]]
Drop(fs, p) == [q \in (DOMAIN fs) \ {p} |-> fs[q]]

\* line 74: the name archive.append gives an entry.  The archiver strips
\* every leading "/" and "../" of the name it is given.
RECURSIVE EntryName(_)
EntryName(name) ==
    IF name # <<>> /\ Head(name) = "/" THEN EntryName(Tail(name))
    ELSE IF Len(name) >= 2 /\ name[1] = ".." /\ name[2] = "/"
         THEN EntryName(Tail(Tail(name)))
    ELSE name

\* The entries of an archive: archive.append(content, {name}) per key
ZipEntries(filesObj) ==
    [i \in 1..Len(Keys(filesObj)) |->
        <<EntryName(Keys(filesObj)[i]), ToStr(Get(filesObj, Keys(filesObj)[i]))>>]

\* lines 39-51.  The loop from the i-th key on; failAt is the index of the
\* write that the operating system refuses (0: none).  A write also fails
\* when its path is a directory or a directory on its way is a file.
RECURSIVE SaveFrom(_, _, _, _, _, _, _)
SaveFrom(i, dirPath, filesObj, failAt, r, fs, ds) ==
    IF i > Len(Keys(filesObj)) THEN [files |-> fs, dirs |-> ds, ok |-> TRUE]
    ELSE LET fileName == Keys(filesObj)[i]
             filePath == pathJoin(dirPath, fileName)
             parent == dirname(filePath)
             mkdirFails == \E a \in Ancestors(parent) : a \in DOMAIN fs
             ds2 == ds \cup Ancestors(parent)
         IN  IF mkdirFails THEN [files |-> fs, dirs |-> ds, ok |-> FALSE]
             ELSE IF i = failAt \/ filePath \in ds2 \/ filePath = <<>>
                  THEN [files |-> fs, dirs |-> ds2, ok |-> FALSE]
                  ELSE SaveFrom(i + 1, dirPath, filesObj, failAt, r,
                                Put(fs, filePath,
                                    TextFile(ToStr(Get(filesObj, fileName)), r)),
                                ds2)

saveGeneratedFiles(projectName, filesObj, failAt, r, fs, ds) ==
    LET dirPath == pathJoin(Root, projectName) IN
    IF \E a \in Ancestors(dirPath) : a \in DOMAIN fs
    THEN [files |-> fs, dirs |-> ds, ok |-> FALSE]
    ELSE SaveFrom(1, dirPath, filesObj, failAt, r, fs, ds \cup Ancestors(dirPath))

\* line 56
ZipPath(projectName) == pathJoin(Root, projectName \o <<".zip">>)

\* ------------------------------------------------------------- /generate
\* lines 403-404
CmsPrefix(cms) == IF Truthy(cms) THEN toLowerCase(ToStr(cms)) \o <<"_">> ELSE <<>>

FolderName(b, t) ==
    LET n == CmsPrefix(b.cms) \o ToStr(b.projectName) \o <<"_", ToString(t)>>
    IN  IF n # <<>> THEN n ELSE <<"project_", ToString(t)>>

\* cms.toLowerCase() exists on strings only
CmsThrows(cms) == Truthy(cms) /\ cms.t # "string"

NoResponse ==
    [status |-> 0, error |-> "", raw |-> <<>>, issues |-> <<>>, suggestion |-> "",
     success |-> FALSE, files |-> JUndef, message |-> "", zipFileName |-> <<>>,
     downloadUrl |-> <<>>, actualProjectName |-> <<>>]

\* line 185
QueryRequired == [NoResponse EXCEPT !.status = 400, !.error = "Query text is required."]

DecodeFailure_NoRaw(text) ==
    [NoResponse EXCEPT !.status = 500, !.error = "AI returned invalid JSON."]

\* lines 383-386
DecodeFailure(text) ==
    [NoResponse EXCEPT !.status = 500, !.error = "AI returned invalid JSON.", !.raw = text]

ValidationFailure_FirstOnly(validationErrors) ==
    [NoResponse EXCEPT !.status = 400,
                       !.error = "Generated project has validation errors",
                       !.issues = SubSeq(validationErrors, 1, 1),
                       !.suggestion = "Please regenerate with a more specific query"]

\* lines 393-397
ValidationFailure(validationErrors) ==
    [NoResponse EXCEPT !.status = 400,
                       !.error = "Generated project has validation errors",
                       !.issues = validationErrors,
                       !.suggestion = "Please regenerate with a more specific query"]

\* line 428
Failure == [NoResponse EXCEPT !.status = 500, !.error = "error.message"]

\* lines 413-424
Success(filesObj, zipPath, folderName) ==
    [NoResponse EXCEPT !.status = 200, !.success = TRUE, !.files = filesObj,
                       !.message = "Project generated successfully.",
                       !.zipFileName = basename(zipPath),
                       !.downloadUrl = <<"/download/">> \o basename(zipPath),
                       !.actualProjectName = folderName]

NoHist ==
    [aiCalls |-> 0, modelText |-> <<>>, validated |-> FALSE, report |-> <<>>,
     saved |-> FALSE, zipStarted |-> FALSE, promise |-> "none", ioError |-> "none",
     computedAt |-> 0, settledAt |-> 0]

\* ----------------------------------------------------------------- inputs
Bodies ==
    { [query |-> JStr(<<"q">>), projectName |-> JStr(<<"p">>), cms |-> JStr(<<"AEM">>)],
      [query |-> JStr(<<"q">>), projectName |-> JStr(<<"p">>), cms |-> JUndef],
      [query |-> JStr(<<"q">>), projectName |-> JUndef, cms |-> JUndef],
      [query |-> JUndef, projectName |-> JStr(<<"p">>), cms |-> JUndef] }

NoBody == [query |-> JUndef, projectName |-> JUndef, cms |-> JUndef]

\* what the model answers: a document, bare, padded with whitespace, fenced
\* (the token FENCE is a line of three backquotes), introduced by a
\* sentence, or cut off
ModelTexts ==
    { <<d>> : d \in {"D_OK", "D_ESC", "D_NOPKG", "D_BADPKG", "D_EMPTY",
                     "D_NOFILES", "D_FILESSTR", "D_NONSTR", "D_NULL"} }
    \cup { <<"\n", "D_OK", " ">>,
           <<"FENCE json", "\n", "D_OK", "\n", "FENCE">>,
           <<"Here is your project:", "\n", "D_OK">>,
           <<" ", "Sorry, I cannot do that.", "\n">>,
           <<"{\"files\": {\"package.json\": \"{">> }

Init ==
    /\ now = 0
    /\ alive = TRUE
    /\ pc = [r \in Reqs |-> "idle"]
    /\ body = [r \in Reqs |-> NoBody]
    /\ aiText = [r \in Reqs |-> <<>>]
    /\ folder = [r \in Reqs |-> <<>>]
    /\ resp = [r \in Reqs |-> <<>>]
    /\ files = << >>
    /\ dirs = {}
    /\ timers = <<>>
    /\ dl = <<>>
    /\ hist = [r \in Reqs |-> NoHist]
    /\ sched = <<>>
    /\ rm = <<>>
    /\ cl = NoCall

\* lines 177-186 and 370: the handler up to the call of the model
Receive(r, b) ==
    /\ alive
    /\ pc[r] = "idle"
    /\ \A q \in Reqs : q < r => pc[q] # "idle"
    /\ body' = [body EXCEPT ![r] = b]
    /\ IF ~Truthy(b.query)
       THEN /\ pc' = [pc EXCEPT ![r] = "done"]
            /\ resp' = [resp EXCEPT ![r] = Append(@, QueryRequired)]
            /\ hist' = hist
       ELSE /\ pc' = [pc EXCEPT ![r] = "awaitAI"]
            /\ resp' = resp
            /\ hist' = [hist EXCEPT ![r].aiCalls = @ + 1]
    /\ UNCHANGED <<now, alive, aiText, folder, files, dirs, timers, dl, sched, rm, cl>>

\* lines 370, 427-429: the call of the model rejects
AIFail(r) ==
    /\ alive
    /\ pc[r] = "awaitAI"
    /\ pc' = [pc EXCEPT ![r] = "done"]
    /\ resp' = [resp EXCEPT ![r] = Append(@, Failure)]
    /\ UNCHANGED <<now, alive, body, aiText, folder, files, dirs, timers, dl,
                   hist, sched, rm, cl>>

\* lines 376-412: everything the handler does, without yielding, from the
\* model's answer to the await of createZipFile.  The result is the new
\* value of each variable the handler touches.
Handle(r, text, failAt) ==
    LET a == trim(text)
        h0 == [hist[r] EXCEPT !.modelText = text]
        stay == [pc |-> "done", resp |-> <<>>, folder |-> <<>>, files |-> files,
                 dirs |-> dirs, hist |-> h0, aiText |-> a]
    IN
    IF ~CanParse(a) THEN [stay EXCEPT !.resp = <<DecodeFailure(a)>>]
    ELSE LET jsonResponse == JSONparse(a) IN
    IF Throws(jsonResponse) THEN [stay EXCEPT !.resp = <<Failure>>]
    ELSE LET filesObj == Get(jsonResponse, <<"files">>) IN
    IF ~Truthy(filesObj) THEN [stay EXCEPT !.pc = "hung"]
    ELSE LET validationErrors == validateGeneratedFiles(filesObj)
             h1 == [h0 EXCEPT !.validated = TRUE, !.report = validationErrors]
         IN
    IF Len(validationErrors) > 0
    THEN [stay EXCEPT !.resp = <<ValidationFailure(validationErrors)>>, !.hist = h1]
    ELSE IF CmsThrows(body[r].cms) THEN [stay EXCEPT !.resp = <<Failure>>, !.hist = h1]
    ELSE LET folderName == FolderName(body[r], now)
             sv == saveGeneratedFiles(folderName, filesObj, failAt, r, files, dirs)
             h2 == [h1 EXCEPT !.computedAt = now]
         IN
    IF ~sv.ok
    THEN [stay EXCEPT !.resp = <<Failure>>, !.folder = folderName,
                      !.files = sv.files, !.dirs = sv.dirs, !.hist = h2]
    ELSE [stay EXCEPT !.pc = "opening", !.folder = folderName,
                      !.files = sv.files, !.dirs = sv.dirs,
                      !.hist = [h2 EXCEPT !.saved = TRUE, !.zipStarted = TRUE,
                                          !.promise = "pending"]]

\* the number of writes the handler would attempt for this text
Writes(text) ==
    IF CanParse(trim(text)) /\ ~Throws(JSONparse(trim(text)))
    THEN Len(Keys(Get(JSONparse(trim(text)), <<"files">>)))
    ELSE 0

\* the handler's results become the state
Settle(r, o) ==
    /\ pc' = [pc EXCEPT ![r] = o.pc]
    /\ aiText' = [aiText EXCEPT ![r] = o.aiText]
    /\ folder' = [folder EXCEPT ![r] = o.folder]
    /\ resp' = [resp EXCEPT ![r] = @ \o o.resp]
    /\ files' = o.files
    /\ dirs' = o.dirs
    /\ hist' = [hist EXCEPT ![r] = o.hist]

AIRespond(r, text, failAt) ==
    /\ alive
    /\ pc[r] = "awaitAI"
    /\ Settle(r, Handle(r, text, failAt))
    /\ UNCHANGED <<now, alive, body, timers, dl, sched, rm, cl>>

\* ---------------------------------------------------------- createZipFile
FilesOf(r) == Get(JSONparse(aiText[r]), <<"files">>)

TimersAfterBuild_Scheduled(ts, zipPath, t) ==
    Append(ts, [path |-> zipPath, at |-> t + CleanupDelay])

\* lines 412-424 set no timer: the timers after createZipFile resolved
TimersAfterBuild(ts, zipPath, t) == ts

TimersAfterDownload_Soon(ts, filePath, t) ==
    Append(ts, [path |-> filePath, at |-> t + 1])

\* lines 452-457: the timers after a download was answered
TimersAfterDownload(ts, filePath, t) ==
    Append(ts, [path |-> filePath, at |-> t + CleanupDelay])

Added(old, new) == SubSeq(new, Len(old) + 1, Len(new))

\* line 57: the write stream opens its file, creating or truncating it
ZipOpen(r) ==
    /\ alive
    /\ pc[r] = "opening"
    /\ LET zipPath == ZipPath(folder[r]) IN
       /\ zipPath \notin dirs
       /\ files' = Put(files, zipPath,
                       ZipFile(<<>>,
                               (IF zipPath \in DOMAIN files THEN files[zipPath].w ELSE {})
                                   \cup {r},
                               r))
    /\ pc' = [pc EXCEPT ![r] = "writing"]
    /\ UNCHANGED <<now, alive, body, aiText, folder, resp, dirs, timers, dl,
                   hist, sched, rm, cl>>

\* lines 60-63 and 413-424: every entry is written, the stream closes, the
\* promise resolves and the handler answers
ZipClose(r) ==
    /\ alive
    /\ pc[r] = "writing"
    /\ LET zipPath == ZipPath(folder[r]) IN
       /\ files' = IF zipPath \in DOMAIN files /\ r \in files[zipPath].w
                   THEN Put(files, zipPath,
                            ZipFile(ZipEntries(FilesOf(r)), files[zipPath].w \ {r}, r))
                   ELSE files
       /\ timers' = TimersAfterBuild(timers, zipPath, now)
       /\ sched' = sched \o Added(timers, timers')
       /\ resp' = [resp EXCEPT ![r] = Append(@, Success(FilesOf(r), zipPath, folder[r]))]
    /\ pc' = [pc EXCEPT ![r] = "done"]
    /\ hist' = [hist EXCEPT ![r].promise = "resolved", ![r].settledAt = now]
    /\ UNCHANGED <<now, alive, body, aiText, folder, dirs, dl, rm, cl>>

\* lines 65-67 and 427-429: the archiver emits 'error'
ArchiveError(r) ==
    /\ alive
    /\ pc[r] \in {"opening", "writing"}
    /\ pc' = [pc EXCEPT ![r] = "done"]
    /\ resp' = [resp EXCEPT ![r] = Append(@, Failure)]
    /\ hist' = [hist EXCEPT ![r].promise = "rejected", ![r].ioError = "archiver",
                            ![r].settledAt = now]
    /\ UNCHANGED <<now, alive, body, aiText, folder, files, dirs, timers, dl,
                   sched, rm, cl>>

\* The output stream emits 'error' (the open or a write fails).  No handler
\* is registered for it (lines 57-69).  Depending on the stream library the
\* archiver was built with, the error is rethrown as an uncaught exception,
\* which ends the process, or it is dropped and the stream's 'close' event
\* resolves the promise (lines 60-63).
OutputErrorOutcomes == {"crash", "close"}

OutputError(r, outcome) ==
    /\ alive
    /\ pc[r] \in {"opening", "writing"}
    /\ outcome \in OutputErrorOutcomes
    /\ LET zipPath == ZipPath(folder[r]) IN
       /\ files' = IF zipPath \in DOMAIN files /\ r \in files[zipPath].w
                   THEN Put(files, zipPath, [files[zipPath] EXCEPT !.w = @ \ {r}])
                   ELSE files
       /\ IF outcome = "crash"
          THEN /\ alive' = FALSE
               /\ timers' = <<>>
               /\ pc' = pc
               /\ resp' = resp
               /\ hist' = [hist EXCEPT ![r].ioError = "output"]
          ELSE /\ alive' = alive
               /\ timers' = TimersAfterBuild(timers, zipPath, now)
               /\ pc' = [pc EXCEPT ![r] = "done"]
               /\ resp' = [resp EXCEPT
                             ![r] = Append(@, Success(FilesOf(r), zipPath, folder[r]))]
               /\ hist' = [hist EXCEPT ![r].ioError = "output",
                                       ![r].promise = "resolved",
                                       ![r].settledAt = now]
       /\ sched' = IF outcome = "crash" THEN sched ELSE sched \o Added(timers, timers')
    /\ UNCHANGED <<now, body, aiText, folder, dirs, dl, rm, cl>>

\* ------------------------------------------------------------- /download
\* The names a client may ask for: the name of any file on disk relative to
\* generated_projects (with the "/" the router decodes from %2F), and the
\* name under which an archive is announced, before the archive exists and
\* after it is gone as well.
RelativeName(p) ==
    IF p # <<>> /\ p[1] = Root[1]
    THEN JoinWith(Tail(p), <<"/">>)
    ELSE <<"..", "/">> \o JoinWith(p, <<"/">>)

DownloadNames ==
    {RelativeName(p) : p \in DOMAIN files}
    \cup {basename(ZipPath(folder[r])) : r \in {q \in Reqs : folder[q] # <<>>}}

\* lines 435-441: the status the handler answers a name with
DownloadStatus(name) ==
    IF existsSync(pathJoin(Root, name), files, dirs) /\ endsWith(name, ".zip")
    THEN 200 ELSE 404

Download_Consuming(name) ==
    /\ alive
    /\ name # <<>>
    /\ LET filePath == pathJoin(Root, name)
           found == DownloadStatus(name) = 200
           file == IF filePath \in DOMAIN files THEN files[filePath] ELSE NoFile
       IN
       /\ found => Len(dl) < MaxDl
       /\ dl' = IF ~found THEN dl
                ELSE Append(dl,
                       [name |-> name, path |-> filePath, at |-> now,
                        status |-> 200, file |-> file,
                        resolved |-> /\ file.kind = "zip"
                                     /\ file.w = {}
                                     /\ hist[file.by].promise = "resolved"
                                     /\ hist[file.by].ioError = "none"])
       /\ timers' = IF found THEN TimersAfterDownload(timers, filePath, now) ELSE timers
       /\ sched' = sched \o Added(timers, timers')
       \* a directory cannot be streamed: the read stream's 'error' has no
       \* handler and ends the process
       /\ alive' = ~(found /\ filePath \notin DOMAIN files)
    /\ files' = IF DownloadStatus(name) = 200 /\ pathJoin(Root, name) \in DOMAIN files
                THEN Drop(files, pathJoin(Root, name)) ELSE files
    /\ UNCHANGED <<now, pc, body, aiText, folder, resp, dirs, hist, rm, cl>>

\* lines 433-462.  A request that is answered 404 changes nothing on the
\* server; MaxDl bounds the requests that are answered with a file.
Download(name) ==
    /\ alive
    /\ name # <<>>
    /\ LET filePath == pathJoin(Root, name)
           found == DownloadStatus(name) = 200
           file == IF filePath \in DOMAIN files THEN files[filePath] ELSE NoFile
       IN
       /\ found => Len(dl) < MaxDl
       /\ dl' = IF ~found THEN dl
                ELSE Append(dl,
                       [name |-> name, path |-> filePath, at |-> now,
                        status |-> 200, file |-> file,
                        resolved |-> /\ file.kind = "zip"
                                     /\ file.w = {}
                                     /\ hist[file.by].promise = "resolved"
                                     /\ hist[file.by].ioError = "none"])
       /\ timers' = IF found THEN TimersAfterDownload(timers, filePath, now) ELSE timers
       /\ sched' = sched \o Added(timers, timers')
       \* a directory cannot be streamed: the read stream's 'error' has no
       \* handler and ends the process
       /\ alive' = ~(found /\ filePath \notin DOMAIN files)
    /\ UNCHANGED <<now, pc, body, aiText, folder, resp, files, dirs, hist, rm, cl>>

TimerFire_Unguarded ==
    /\ alive
    /\ timers # <<>>
    /\ Head(timers).at <= now
    /\ LET filePath == Head(timers).path IN
       /\ files' = IF filePath \in DOMAIN files THEN Drop(files, filePath) ELSE files
       /\ rm' = IF filePath \in DOMAIN files
                THEN Append(rm, [path |-> filePath, at |-> now])
                ELSE rm
       /\ alive' = (filePath \in DOMAIN files)
    /\ timers' = Tail(timers)
    /\ UNCHANGED <<now, pc, body, aiText, folder, resp, dirs, dl, hist, sched, cl>>

\* lines 452-457: the callback of the oldest timer, once its time has come
TimerFire ==
    /\ alive
    /\ timers # <<>>
    /\ Head(timers).at <= now
    /\ LET filePath == Head(timers).path IN
       /\ files' = IF filePath \in DOMAIN files THEN Drop(files, filePath) ELSE files
       /\ rm' = IF filePath \in DOMAIN files
                THEN Append(rm, [path |-> filePath, at |-> now])
                ELSE rm
       \* unlinkSync of a directory throws inside the callback
       /\ alive' = ~(filePath \notin DOMAIN files /\ existsSync(filePath, files, dirs))
    /\ timers' = Tail(timers)
    /\ UNCHANGED <<now, pc, body, aiText, folder, resp, dirs, dl, hist, sched, cl>>

\* ------------------------------------------------------------------ time
MaxTime == MaxDelays * CleanupDelay + MaxMs

\* The clock advances by one millisecond, or up to the next deadline (by a
\* whole delay when no timer is pending); it never passes a deadline of a
\* running process.
Tick(jump) ==
    /\ LET pending == alive /\ timers # <<>>
           next == IF ~jump THEN now + 1
                   ELSE IF pending THEN Head(timers).at
                   ELSE now + CleanupDelay
       IN
       /\ next > now
       /\ next <= MaxTime
       /\ ~jump => (now % CleanupDelay) < MaxMs
       /\ pending => next <= Head(timers).at
       /\ now' = next
    /\ UNCHANGED <<alive, pc, body, aiText, folder, resp, files, dirs, timers,
                   dl, hist, sched, rm, cl>>

\* The lifecycle of an artifact: generation, retrieval, cleanup, time.  The
\* generation requests follow one another here; NextRace overlaps them.
LifeBodies ==
    { [query |-> JStr(<<"q">>), projectName |-> JStr(<<"p">>), cms |-> JStr(<<"AEM">>)] }

LifeTexts == { <<"D_OK">> }

Next ==
    \/ \E r \in 1..MaxLive, b \in LifeBodies :
          /\ \A q \in 1..(r - 1) : pc[q] \in {"done", "hung"}
          /\ Receive(r, b)
    \/ \E r \in Reqs, text \in LifeTexts : AIRespond(r, text, 0)
    \/ \E r \in Reqs : ZipOpen(r)
    \/ \E r \in Reqs : ZipClose(r)
    \/ \E r \in Reqs : ArchiveError(r)
    \/ \E r \in Reqs, outcome \in OutputErrorOutcomes : OutputError(r, outcome)
    \/ \E name \in DownloadNames : Download(name)
    \/ TimerFire
    \/ Tick(TRUE)

Spec == Init /\ [][Next]_vars

\* Retrieval by name: one generation request whose FileMap holds a key that
\* ends with .zip, and the names a client may then ask for.
ServeTexts == { <<"D_ESC">> }

\* the project name may hold a path separator
ServeBodies ==
    LifeBodies
    \cup { [query |-> JStr(<<"q">>), projectName |-> JStr(<<"a", "/", "b">>),
            cms |-> JStr(<<"AEM">>)] }

NextServe ==
    \/ \E b \in ServeBodies : Receive(1, b)
    \/ \E text \in ServeTexts : AIRespond(1, text, 0)
    \/ ZipOpen(1)
    \/ ZipClose(1)
    \/ \E name \in DownloadNames : Download(name)
    \/ TimerFire
    \/ Tick(TRUE)

SpecServe == Init /\ [][NextServe]_vars

\* Validation, materialization and archiving of every FileMap of
\* FileMapChoices, through one generation request.
NextValidate ==
    \/ \E b \in LifeBodies : Receive(1, b)
    \/ \E c \in FileMapChoices : AIRespond(1, <<FileMapToken(c)>>, 0)
    \/ ZipOpen(1)
    \/ ZipClose(1)

SpecValidate == Init /\ [][NextValidate]_vars

\* Decoding and validation: every body and every model text, no retrieval.
NextDecode ==
    \/ \E r \in 1..MaxDecode, b \in Bodies : Receive(r, b)
    \/ \E r \in Reqs : AIFail(r)
    \/ \E r \in Reqs, text \in ModelTexts :
          \E failAt \in 0..Writes(text) : AIRespond(r, text, failAt)
    \/ \E r \in Reqs : ZipOpen(r)
    \/ \E r \in Reqs : ZipClose(r)
    \/ \E r \in Reqs : ArchiveError(r)
    \/ \E r \in Reqs, outcome \in OutputErrorOutcomes : OutputError(r, outcome)

SpecDecode == Init /\ [][NextDecode]_vars

\* The client's fetch with retries, for every retries argument.
NextClient ==
    \/ \E arg \in RetriesArgs : Call(arg)
    \/ \E status \in Statuses : FetchResolves(status)
    \/ FetchRejects
    \/ Wake

SpecClient == Init /\ [][NextClient]_vars

\* Concurrent generation requests, millisecond by millisecond.
RaceBodies ==
    { [query |-> JStr(<<"q">>), projectName |-> JStr(<<"p">>), cms |-> JStr(<<"AEM">>)],
      [query |-> JStr(<<"q">>), projectName |-> JStr(<<"p">>), cms |-> JUndef] }

NextRace ==
    \/ \E r \in Reqs, b \in RaceBodies : Receive(r, b)
    \/ \E r \in Reqs : AIRespond(r, <<"D_OK">>, 0)
    \/ \E r \in Reqs : ZipOpen(r)
    \/ \E r \in Reqs : ZipClose(r)
    \/ Tick(FALSE)

SpecRace == Init /\ [][NextRace]_vars

\* ------------------------------------------------------------ properties
\* the model answered request r and the handler has run on its text
Handled(r) == pc[r] \notin {"idle", "awaitAI"} /\ hist[r].modelText # <<>>

Count(seq, Test(_)) == Cardinality({i \in DOMAIN seq : Test(seq[i])})

C3_DistinctNamespaces ==
    \A r1, r2 \in Reqs :
        (/\ r1 # r2
         /\ folder[r1] # <<>> /\ folder[r2] # <<>>
         /\ body[r1].projectName = body[r2].projectName
         /\ body[r1].cms = body[r2].cms
         /\ hist[r1].computedAt = hist[r2].computedAt)
        => folder[r1] # folder[r2]

\* C4 as stated: a retrieval succeeds only for the generated file name of
\* an archive that the Archive Builder produced; any other name is answered
\* not-found even though a file exists at the path it resolves to.
C4_OnlyArtifactsServed ==
    \A j \in DOMAIN dl :
        dl[j].status = 200
        => /\ dl[j].file.kind = "zip"
           /\ dl[j].name = basename(ZipPath(folder[dl[j].file.by]))

\* C5 as stated: no retrieval of an archive name succeeds while the archive
\* is still being constructed or after its construction has failed.
C5_NoPartialRetrieval ==
    \A j \in DOMAIN dl :
        (dl[j].status = 200 /\ dl[j].file.kind = "zip") => dl[j].resolved

\* C6 as stated: any I/O error during archive construction, of the archiver
\* or of the output stream, makes createZipFile reject, and /generate then
\* answers with a failure response.
C6_IoErrorRejects ==
    \A r \in Reqs :
        hist[r].ioError # "none"
        => /\ hist[r].promise = "rejected"
           /\ Len(resp[r]) = 1
           /\ resp[r][1].status = 500

\* a document of the required shape, with prose or code-fence markers (and
\* whitespace) around it
Wrapping == {"FENCE json", "FENCE", "Here is your project:"}

IsFileMapDoc(t) ==
    /\ t \in DOMAIN Docs
    /\ Docs[t].t = "object"
    /\ Get(Docs[t], <<"files">>).t = "object"
    /\ \A i \in 1..Len(Get(Docs[t], <<"files">>).kv) :
          Get(Docs[t], <<"files">>).kv[i][2].t = "string"

IsWrapped(text) ==
    /\ \E i \in DOMAIN text :
          /\ IsFileMapDoc(text[i])
          /\ \A k \in DOMAIN text : k # i => text[k] \in Wrapping \cup Whitespace
    /\ \E k \in DOMAIN text : text[k] \in Wrapping

IsPadded(text) ==
    \E i \in DOMAIN text :
        /\ IsFileMapDoc(text[i])
        /\ \A k \in DOMAIN text : k # i => text[k] \in Whitespace

IsDecodeFailure(rs) ==
    Len(rs) = 1 /\ rs[1].status = 500 /\ rs[1].error = "AI returned invalid JSON."

\* raw is text without its leading and trailing whitespace
IsTrimOf(raw, text) ==
    \E i \in 1..(Len(text) + 1), j \in 0..Len(text) :
        /\ raw = SubSeq(text, i, j)
        /\ \A k \in 1..(i - 1) : text[k] \in Whitespace
        /\ \A k \in (j + 1)..Len(text) : text[k] \in Whitespace
        /\ raw # <<>> => (raw[1] \notin Whitespace /\ raw[Len(raw)] \notin Whitespace)

C8_ShapeChecked ==
    \A r \in Reqs :
        (/\ Handled(r)
         /\ CanParse(hist[r].modelText)
         /\ ~IsPadded(hist[r].modelText))
        => /\ IsDecodeFailure(resp[r])
           /\ ~hist[r].validated
           /\ ~hist[r].saved
           /\ ~hist[r].zipStarted

\* C9: when the model text cannot be parsed, /generate answers once, with
\* the error response that carries the trimmed model text unchanged; the
\* model was called once; nothing was validated, written or archived.
C9_DecodeFailureCarriesRaw ==
    \A r \in Reqs :
        (Handled(r) /\ ~CanParse(hist[r].modelText))
        => /\ pc[r] = "done"
           /\ IsDecodeFailure(resp[r])
           /\ IsTrimOf(resp[r][1].raw, hist[r].modelText)
           /\ hist[r].aiCalls = 1
           /\ ~hist[r].validated
           /\ ~hist[r].saved
           /\ ~hist[r].zipStarted
           /\ folder[r] = <<>>
           /\ \A p \in DOMAIN files : files[p].by # r

\* C9: unparseable text with whitespace around it was answered
C9_Witness ==
    \E r \in Reqs :
        /\ Handled(r)
        /\ ~CanParse(hist[r].modelText)
        /\ hist[r].modelText[1] \in Whitespace
        /\ resp[r] # <<>>
        /\ resp[r][1].raw # <<>>

\* C10: when validateGeneratedFiles returns a non-empty report, /generate
\* answers once, with status 400, the issues of exactly that report in the
\* same order, and a remediation hint; saveGeneratedFiles and createZipFile
\* do not run, so nothing is created for the request.
C10_ValidationFailureAnswered ==
    \A r \in Reqs :
        (/\ Handled(r)
         /\ CanParse(hist[r].modelText)
         /\ ~Throws(JSONparse(hist[r].modelText))
         /\ Truthy(Get(JSONparse(hist[r].modelText), <<"files">>))
         /\ validateGeneratedFiles(Get(JSONparse(hist[r].modelText), <<"files">>)) # <<>>)
        => /\ pc[r] = "done"
           /\ Len(resp[r]) = 1
           /\ resp[r][1].status = 400
           /\ resp[r][1].issues =
                 validateGeneratedFiles(Get(JSONparse(hist[r].modelText), <<"files">>))
           /\ resp[r][1].suggestion # ""
           /\ ~resp[r][1].success
           /\ ~hist[r].saved
           /\ ~hist[r].zipStarted
           /\ folder[r] = <<>>
           /\ \A p \in DOMAIN files : files[p].by # r

\* C10: a report of several issues was answered
C10_Witness ==
    \E r \in Reqs :
        /\ Handled(r)
        /\ hist[r].validated
        /\ Len(hist[r].report) > 1
        /\ resp[r] # <<>>
        /\ resp[r][1].issues = hist[r].report

\* ------------------------------------------- properties of the validator
\* the FileMap the handler passed to validateGeneratedFiles for request r
Validated(r) == Handled(r) /\ hist[r].validated

FileMapIn(r) == Get(JSONparse(hist[r].modelText), <<"files">>)

\* the keys of a FileMap that end in package.json, in order
ManifestPaths(fm) == SelectSeq(Keys(fm), LAMBDA k : Last(k) = "package.json")

\* the value of the first manifest of a FileMap (a JSON document)
ManifestValue(fm) == Docs[Get(fm, ManifestPaths(fm)[1]).s[1]]

\* the first manifest is a JSON document other than null
HasManifestObject(fm) ==
    /\ ManifestPaths(fm) # <<>>
    /\ Get(fm, ManifestPaths(fm)[1]).t = "string"
    /\ Len(Get(fm, ManifestPaths(fm)[1]).s) = 1
    /\ Get(fm, ManifestPaths(fm)[1]).s[1] \in DOMAIN Docs
    /\ ManifestValue(fm).t = "object"

\* the keys of one dependency section of the first manifest
SectionKeys(fm, section) ==
    LET sec == Get(ManifestValue(fm), <<section>>)
    IN  IF sec.t = "object" THEN {sec.kv[i][1] : i \in 1..Len(sec.kv)} ELSE {}

\* the source lines of a FileMap
LinesOf(fm) ==
    UNION { {Get(fm, Keys(fm)[i]).s[j] : j \in 1..Len(Get(fm, Keys(fm)[i]).s)} :
            i \in 1..Len(Keys(fm)) }

\* the lines of the vite.config.js of a FileMap, if it has one
ViteLinesOf(fm) ==
    UNION { {Get(fm, k).s[j] : j \in 1..Len(Get(fm, k).s)} :
            k \in {Keys(fm)[i] : i \in {n \in 1..Len(Keys(fm)) :
                                          Last(Keys(fm)[n]) = "vite.config.js"}} }

IsMissingDependencyIssue(issue) == issue[1] = "Missing dependencies in package.json: "

Mentions(issue, name) ==
    \E i \in 1..(Len(issue) - Len(name) + 1) : SubSeq(issue, i, i + Len(name) - 1) = name

HasIssue(r, text) == \E i \in 1..Len(hist[r].report) : hist[r].report[i] = <<text>>

\* C11: for every FileMap with no path ending in package.json the report
\* is exactly the one missing-manifest issue, whatever else the FileMap
\* holds, and /generate answers 400 with that one issue.
C11_MissingManifestAlone ==
    \A r \in Reqs :
        (Validated(r) /\ ManifestPaths(FileMapIn(r)) = <<>>)
        => /\ hist[r].report =
                 << <<"package.json is missing - REQUIRED for all projects">> >>
           /\ Len(resp[r]) = 1
           /\ resp[r][1].status = 400
           /\ resp[r][1].issues = hist[r].report

\* C11: a FileMap without manifest that has React code with an undeclared
\* import and a vite.config.js was answered with the one issue
C11_Witness ==
    \E r \in Reqs :
        /\ Validated(r)
        /\ ManifestPaths(FileMapIn(r)) = <<>>
        /\ "import React from 'react'" \in LinesOf(FileMapIn(r))
        /\ ViteLinesOf(FileMapIn(r)) # {}
        /\ Len(hist[r].report) = 1
        /\ resp[r] # <<>>

\* C12 as stated: a FileMap with two or more paths ending in package.json
\* does not pass validation: its report is non-empty.
C12_TwoManifestsRejected ==
    \A r \in Reqs :
        (Validated(r) /\ Len(ManifestPaths(FileMapIn(r))) >= 2)
        => hist[r].report # <<>>

\* the imports of the form the claims name: the line and the package
ImportLines ==
    { <<"import x from \"left-pad\"", <<"left-pad">> >>,
      <<"import c from \"constructor\"", <<"constructor">> >>,
      <<"import x from \"react\"", <<"react">> >>,
      <<"import React from 'react'", <<"react">> >>,
      <<"import react from '@vitejs/plugin-react'", <<"@vitejs", "/", "plugin-react">> >>,
      <<"import vue from '@vitejs/plugin-vue'", <<"@vitejs", "/", "plugin-vue">> >> }

RequireLines ==
    { <<"const x = require(\"left-pad\")", <<"left-pad">> >> }

\* a line of the set is in the FileMap, its package is declared in neither
\* section, and no missing-dependency issue of the report mentions it
Unreported(r, lines) ==
    \E l \in lines :
        /\ l[1] \in LinesOf(FileMapIn(r))
        /\ l[2] \notin SectionKeys(FileMapIn(r), "dependencies")
                       \cup SectionKeys(FileMapIn(r), "devDependencies")
        /\ ~\E i \in 1..Len(hist[r].report) :
               /\ IsMissingDependencyIssue(hist[r].report[i])
               /\ Mentions(hist[r].report[i], l[2])

\* C13 as stated: with a parseable manifest, an import of a package that is
\* not relative and is a key of neither dependencies nor devDependencies
\* puts a missing-dependency issue that mentions the package in the report.
C13_UndeclaredImportReported ==
    \A r \in Reqs :
        (Validated(r) /\ HasManifestObject(FileMapIn(r)))
        => ~Unreported(r, ImportLines)

\* C14 as stated: with a parseable manifest, a require("<pkg>") of a
\* package that is not relative and is declared in neither section puts a
\* missing-dependency issue that mentions the package in the report.
C14_UndeclaredRequireReported ==
    \A r \in Reqs :
        (Validated(r) /\ HasManifestObject(FileMapIn(r)))
        => ~Unreported(r, RequireLines)

\* every module reference the scan captures in the FileMap is relative
OnlyRelativeReferences(fm) ==
    \A i \in 1..Len(Keys(fm)) :
        LET caps == CapturesOf(ToStr(Get(fm, Keys(fm)[i]))) IN
        \A j \in 1..Len(caps) : Head(caps[j]) \in {".", "..", "/"}

\* C15: when every captured module reference of every file begins with
\* '.' or '/', the report has no missing-dependency issue, whatever the
\* manifest declares.
C15_RelativeNeverMissing ==
    \A r \in Reqs :
        (Validated(r) /\ OnlyRelativeReferences(FileMapIn(r)))
        => \A i \in 1..Len(hist[r].report) :
               ~IsMissingDependencyIssue(hist[r].report[i])

\* C15: a FileMap whose only reference is an absolute path, with a manifest
\* that declares nothing, was validated and got a non-empty report
C15_Witness ==
    \E r \in Reqs :
        /\ Validated(r)
        /\ OnlyRelativeReferences(FileMapIn(r))
        /\ "import a from '/abs/a.js'" \in LinesOf(FileMapIn(r))
        /\ HasManifestObject(FileMapIn(r))
        /\ SectionKeys(FileMapIn(r), "dependencies") = {}
        /\ hist[r].report # <<>>

\* C16 as stated: when a vite.config.js references '@vitejs/plugin-react'
\* (or '@vitejs/plugin-vue') and the package is not a key of
\* devDependencies, the report has the issue that names that package with
\* version ^4.0.0, also when the package is listed under dependencies only.
C16_PluginInDevDependencies ==
    \A r \in Reqs :
        (Validated(r) /\ HasManifestObject(FileMapIn(r)))
        => /\ ("import react from '@vitejs/plugin-react'" \in ViteLinesOf(FileMapIn(r))
               /\ PluginReact \notin SectionKeys(FileMapIn(r), "devDependencies"))
              => HasIssue(r, "vite.config.js uses '@vitejs/plugin-react' -> add to devDependencies: \"@vitejs/plugin-react\": \"^4.0.0\"")
           /\ ("import vue from '@vitejs/plugin-vue'" \in ViteLinesOf(FileMapIn(r))
               /\ PluginVue \notin SectionKeys(FileMapIn(r), "devDependencies"))
              => HasIssue(r, "vite.config.js uses '@vitejs/plugin-vue' -> add to devDependencies: \"@vitejs/plugin-vue\": \"^4.0.0\"")

\* the lines that use React: an import of it, in either quote style
ReactLines ==
    { "import React from 'react'", "import x from \"react\"",
      "import { useState } from 'react'" }

\* C17 as stated: when any file uses React, the report has one issue for
\* 'react' unless it is a key of dependencies and one for 'react-dom' unless
\* it is a key of dependencies; devDependencies do not count.
C17_ReactInDependencies ==
    \A r \in Reqs :
        (/\ Validated(r)
         /\ HasManifestObject(FileMapIn(r))
         /\ LinesOf(FileMapIn(r)) \cap ReactLines # {})
        => /\ <<"react">> \notin SectionKeys(FileMapIn(r), "dependencies")
              => HasIssue(r, "React code found but 'react' not in dependencies -> add: \"react\": \"^18.2.0\"")
           /\ <<"react-dom">> \notin SectionKeys(FileMapIn(r), "dependencies")
              => HasIssue(r, "React code found but 'react-dom' not in dependencies -> add: \"react-dom\": \"^18.2.0\"")

\* the place of an issue in the fixed order; 0 for an issue outside of it
Rank(issue) ==
    CASE issue = <<"package.json missing 'name' field">> -> 1
      [] issue = <<"package.json missing 'version' field">> -> 2
      [] issue = <<"package.json missing 'dependencies' object">> -> 3
      [] issue = <<"package.json missing 'devDependencies' object">> -> 4
      [] IsMissingDependencyIssue(issue) -> 5
      [] issue = <<"vite.config.js uses '@vitejs/plugin-react' -> add to devDependencies: \"@vitejs/plugin-react\": \"^4.0.0\"">> -> 6
      [] issue = <<"vite.config.js uses '@vitejs/plugin-vue' -> add to devDependencies: \"@vitejs/plugin-vue\": \"^4.0.0\"">> -> 7
      [] issue = <<"index.html is missing - REQUIRED for Vite projects (must be in root directory)">> -> 8
      [] issue = <<"src/main.js or src/main.jsx is missing - REQUIRED for Vite entry point">> -> 9
      [] issue = <<"React code found but 'react' not in dependencies -> add: \"react\": \"^18.2.0\"">> -> 10
      [] issue = <<"React code found but 'react-dom' not in dependencies -> add: \"react-dom\": \"^18.2.0\"">> -> 11
      [] OTHER -> 0

\* C18: in every report the issues of the fixed order appear in that
\* order: missing fields (name, version, dependencies, devDependencies),
\* the one missing-dependency issue, the plugin issues (react, vue), the
\* HTML entry, the source entry, react, react-dom; none of them twice.
C18_FixedOrder ==
    \A r \in Reqs :
        Validated(r)
        => \A i, j \in 1..Len(hist[r].report) :
               (i < j /\ Rank(hist[r].report[i]) > 0 /\ Rank(hist[r].report[j]) > 0)
               => Rank(hist[r].report[i]) < Rank(hist[r].report[j])

\* C18: a report with the four missing-field issues, the missing-dependency
\* issue, a plugin issue, the HTML-entry issue and both React issues
C18_Witness ==
    \E r \in Reqs :
        /\ Validated(r)
        /\ {1, 2, 3, 4, 5, 6, 8, 10, 11}
              \subseteq {Rank(hist[r].report[i]) : i \in 1..Len(hist[r].report)}
        /\ resp[r] # <<>>
        /\ resp[r][1].issues = hist[r].report

\* a path lies under a directory
IsUnder(p, dir) == Len(p) > Len(dir) /\ SubSeq(p, 1, Len(dir)) = dir

\* the segments of a FileMap key, as a path relative to the namespace
RelativeSegments(key) == SelectSeq(split(key), LAMBDA g : g # <<>>)

\* C19 as stated: after a successful materialization every FileMap entry
\* is a file under generated_projects/<namespace>/ at its relative path
\* with exactly its content, and no file was written outside of
\* generated_projects/<namespace>/.
C19_MaterializedInsideNamespace ==
    \A r \in Reqs :
        hist[r].saved
        => LET ns == Root \o <<folder[r]>>
               fm == FileMapIn(r)
           IN  /\ \A i \in 1..Len(Keys(fm)) :
                     LET p == ns \o RelativeSegments(Keys(fm)[i]) IN
                     /\ p \in DOMAIN files
                     /\ files[p].data = Get(fm, Keys(fm)[i]).s
               /\ \A p \in DOMAIN files :
                     (files[p].kind = "file" /\ files[p].by = r) => IsUnder(p, ns)

\* C20 as stated: the archive createZipFile built holds exactly one entry
\* per FileMap key, in the key's original path and with the key's content.
C20_ArchiveMirrorsFileMap ==
    \A r \in Reqs :
        (hist[r].promise = "resolved" /\ hist[r].ioError = "none")
        => LET fm == FileMapIn(r)
               zipPath == Root \o <<folder[r] \o <<".zip">> >>
           IN  /\ zipPath \in DOMAIN files
               /\ files[zipPath].entries =
                     [i \in 1..Len(Keys(fm)) |->
                         <<Keys(fm)[i], Get(fm, Keys(fm)[i]).s>>]

\* ------------------------------------------------ properties of the client
\* the fetch attempts that threw
Thrown == IF cl.pc \in {"returned", "fetching"} THEN cl.attempts - 1 ELSE cl.attempts

\* C30: exponentialBackoffFetch makes at most retries attempts (5 when the
\* argument is omitted); it returns the response of the first fetch that
\* resolves, whatever its status; it goes on to another attempt only after
\* a fetch threw; after the i-th failed attempt (i from 0) it sleeps
\* 2^i seconds, except after the last one; it throws only when retries
\* attempts have thrown.
C30_BackoffFetch ==
    /\ cl.pc # "idle" => cl.retries = (IF cl.given THEN cl.retries ELSE 5)
    /\ cl.attempts <= (IF cl.retries > 0 THEN cl.retries ELSE 0)
    /\ cl.pc = "returned" => (cl.status \in Statuses /\ (cl.attempts > 1 <=> cl.lastError))
    /\ cl.attempts > 1 => cl.lastError
    /\ cl.lastError <=> Thrown > 0
    /\ Len(cl.waits) = (IF Thrown < cl.retries THEN Thrown
                        ELSE IF cl.retries > 0 THEN cl.retries - 1 ELSE 0)
    /\ \A k \in 1..Len(cl.waits) : cl.waits[k] = 1000 * (2 ^ (k - 1))
    /\ cl.pc = "thrown" => (Thrown = cl.attempts
                            /\ cl.attempts = (IF cl.retries > 0 THEN cl.retries ELSE 0))

\* C30: a call with the default retries that threw after five attempts and
\* slept 1, 2, 4 and 8 seconds between them
C30_Witness ==
    /\ cl.pc = "thrown"
    /\ ~cl.given
    /\ cl.attempts = 5
    /\ cl.waits = <<1000, 2000, 4000, 8000>>

\* ------------------------------------------- properties of the responses
\* C21 as stated: the success response of /generate is sent only after
\* every FileMap entry has been written and the archive stream has been
\* finalized and closed; it is never sent while either is in progress or
\* after either has failed.
C21_SuccessOnlyAfterBuild ==
    \A r \in Reqs :
        \A i \in DOMAIN resp[r] :
            resp[r][i].success
            => /\ hist[r].saved
               /\ hist[r].promise = "resolved"
               /\ hist[r].ioError = "none"

\* C27 as stated: every /generate request receives exactly one response,
\* whatever the outcome, a model answer that is JSON without a files member
\* included: once the handler has nothing left to run, one response was sent.
C27_ExactlyOneResponse ==
    \A r \in Reqs :
        pc[r] \in {"done", "hung"} => Len(resp[r]) = 1

\* C28 as stated: a request without project name gets the namespace
\* project_<timestamp>; the namespace never contains "undefined" or "null".
C28_FallbackNamespace ==
    \A r \in Reqs :
        (folder[r] # <<>> /\ ~Truthy(body[r].projectName))
        => /\ folder[r] = <<"project_", ToString(hist[r].computedAt)>>
           /\ \A i \in 1..Len(folder[r]) : folder[r][i] \notin {"undefined", "null"}

\* C29 as stated: the report holds the issue "Invalid package.json format"
\* only if the manifest fails to parse, and then it is the only issue; a
\* failure of a later check is never reported as that issue.
C29_InvalidFormatOnlyOnParseFailure ==
    \A r \in Reqs :
        (Validated(r)
         /\ \E i \in 1..Len(hist[r].report) :
                hist[r].report[i][1] = "Invalid package.json format: ")
        => /\ ManifestPaths(FileMapIn(r)) # <<>>
           /\ ~ManifestParses(Get(FileMapIn(r), ManifestPaths(FileMapIn(r))[1]))
           /\ Len(hist[r].report) = 1

\* how often a missing-dependency issue lists the package with the
\* placeholder version
Listings(issue, name) ==
    LET entry == <<"\"">> \o name \o <<"\": \"^1.0.0\"">> IN
    Cardinality({k \in 1..(Len(issue) - Len(entry) + 1) :
                    SubSeq(issue, k, k + Len(entry) - 1) = entry})

\* C25 as stated: the report has at most one missing-dependency issue, and
\* that issue lists each undeclared package that is imported exactly once,
\* under its normalized name with the placeholder version ^1.0.0, however
\* often the package is referenced.
C25_MissingListedOnce ==
    \A r \in Reqs :
        (Validated(r) /\ HasManifestObject(FileMapIn(r)))
        => /\ Count(hist[r].report, IsMissingDependencyIssue) <= 1
           /\ \A l \in ImportLines :
                (/\ l[1] \in LinesOf(FileMapIn(r))
                 /\ l[2] \notin SectionKeys(FileMapIn(r), "dependencies")
                                \cup SectionKeys(FileMapIn(r), "devDependencies"))
                => \E i \in 1..Len(hist[r].report) :
                       /\ IsMissingDependencyIssue(hist[r].report[i])
                       /\ Listings(hist[r].report[i], l[2]) = 1

\* the names of the files of a FileMap
FileNames(fm) == {Keys(fm)[i] : i \in 1..Len(Keys(fm))}

\* C26 as stated: with a vite.config.js in the FileMap the report has the
\* HTML-entry issue exactly when there is no root-level index.html, and the
\* source-entry issue exactly when there is neither a file src/main.js nor
\* a file src/main.jsx; without a vite.config.js neither issue appears.
C26_EntryIssues ==
    \A r \in Reqs :
        (Validated(r) /\ HasManifestObject(FileMapIn(r)))
        => IF \E k \in FileNames(FileMapIn(r)) : Last(k) = "vite.config.js"
           THEN /\ HasIssue(r, "index.html is missing - REQUIRED for Vite projects (must be in root directory)")
                   <=> <<"index.html">> \notin FileNames(FileMapIn(r))
                /\ HasIssue(r, "src/main.js or src/main.jsx is missing - REQUIRED for Vite entry point")
                   <=> /\ <<"src", "/", "main.js">> \notin FileNames(FileMapIn(r))
                       /\ <<"src", "/", "main.jsx">> \notin FileNames(FileMapIn(r))
           ELSE /\ ~HasIssue(r, "index.html is missing - REQUIRED for Vite projects (must be in root directory)")
                /\ ~HasIssue(r, "src/main.js or src/main.jsx is missing - REQUIRED for Vite entry point")

\* -------------------------------------------- properties of the clean-up
\* a step in which the callback of the oldest timer ran
Fires ==
    /\ timers # <<>>
    /\ timers' = Tail(timers)
    /\ hist' = hist
    /\ dl' = dl

\* the entries of a history that are about a path
About(seq, p) == {i \in DOMAIN seq : seq[i].path = p}

\* C23: a timer that fires for a file that is gone deletes nothing and
\* raises no error, and one that fires for a file that is there deletes
\* exactly that file: with any number of timers pending for one archive
\* the file is deleted once and the server keeps running.
C23_FiringTwiceIsSafe ==
    [][Fires =>
         /\ alive'
         /\ dirs' = dirs
         /\ IF Head(timers).path \in DOMAIN files
            THEN /\ files' = Drop(files, Head(timers).path)
                 /\ rm' = Append(rm, [path |-> Head(timers).path, at |-> now])
            ELSE /\ files' = files
                 /\ rm' = rm]_vars

\* C23: two timers were set for one archive and both have fired; the file
\* was deleted once and the server is running
C23_Witness ==
    /\ alive
    /\ timers = <<>>
    /\ \E i \in DOMAIN sched :
          /\ Cardinality(About(sched, sched[i].path)) >= 2
          /\ Cardinality(About(rm, sched[i].path)) = 1
          /\ sched[i].path \notin DOMAIN files

\* C24: answering a retrieval leaves every file in place, so the archive
\* that was just served is still served; an archive leaves the disk only in
\* a step in which a timer set for it fires.
C24_OnlyTimersDelete ==
    [][/\ dl' # dl
          => /\ files' = files
             /\ dirs' = dirs
             /\ existsSync(dl'[Len(dl')].path, files', dirs')
       /\ \A p \in DOMAIN files :
             (files[p].kind = "zip" /\ p \notin DOMAIN files')
             => (Fires /\ Head(timers).path = p)]_vars

\* C24: an archive was retrieved twice and is still on disk and served,
\* with the timers of both retrievals pending and nothing deleted yet
C24_Witness ==
    /\ alive
    /\ rm = <<>>
    /\ Len(dl) >= 2
    /\ dl[1].path = dl[2].path
    /\ dl[1].path \in DOMAIN files
    /\ files[dl[1].path].kind = "zip"
    /\ DownloadStatus(dl[2].name) = 200
    /\ Cardinality(About(timers, dl[1].path)) >= 2

\* -------------------------------------------- properties of the retrieval
\* C22 as stated: for every success response, whatever the project name
\* and CMS (names with path separators included), zipFileName is
\* <actualProjectName>.zip and names generated_projects/<namespace>.zip,
\* and a retrieval of the returned downloadUrl, while the archive is on
\* disk, finds it.
C22_DownloadUrlFindsArchive ==
    \A r \in Reqs :
        \A i \in DOMAIN resp[r] :
            (resp[r][i].success /\ ZipPath(folder[r]) \in DOMAIN files)
            => /\ resp[r][i].actualProjectName = folder[r]
               /\ resp[r][i].zipFileName = folder[r] \o <<".zip">>
               /\ resp[r][i].downloadUrl = <<"/download/">> \o resp[r][i].zipFileName
               /\ pathJoin(Root, resp[r][i].zipFileName) = ZipPath(folder[r])
               /\ DownloadStatus(resp[r][i].zipFileName) = 200

====
